---- MODULE Spec2Model ----
(***************************************************************************)
(* A model of the trading dashboards of tokanic/dasboard:                  *)
(*   src/app.py   the testnet dashboard over the Binance client            *)
(*   src/app2.py  the dashboard over the Flask API, fetch_data memoized    *)
(*                by st.cache_data(ttl=CACHE_TTL), filters and analytics   *)
(*   src/app3.py  the futures dashboard, same fetch_data, trade filters    *)
(*                                                                         *)
(* Four specifications share the module:                                   *)
(*   Spec         the memoized fetch_data of app2.py / app3.py, called by  *)
(*                concurrent sessions while time passes                    *)
(*   SpecRun      one script run of app.py after another                   *)
(*   SpecFilter   the filters of enhanced_open_orders (app2.py) and of     *)
(*                render_trade_history (app3.py)                           *)
(*   SpecMetrics  performance_analytics (app2.py)                          *)
(***************************************************************************)
EXTENDS Integers, Sequences, FiniteSets, TLC

VARIABLES
    now,        \* the clock the cache reads (seconds)
    cache,      \* key -> the entry st.cache_data holds for fetch_data(key)
    lock,       \* key -> the session computing the value (0: nobody)
    inflight,   \* key -> the upstream call in flight for it (0: none)
    ncalls,     \* the number of upstream calls requests.get has been asked for
    sess,       \* session -> its call of fetch_data
    choice,     \* app.py: the page picked in the sidebar
    sidebar,    \* app.py: what the client's construction left in the sidebar
    rpc,        \* app.py: where the script run stands
    out,        \* app.py: the elements the run has rendered
    failed,     \* app.py: the data sources whose fetch failed in this run
    venue,      \* app.py: account_info["positions"], what the venue sent to the run
    pos,        \* app.py: the frame fetch_positions returned to the run
    top,        \* app.py: what get_top_positions returned to the run
    orders,     \* app2.py enhanced_open_orders: frame, widget values, filtered frame
    trades,     \* app3.py render_trade_history: frame, widget values, filtered frame
    analytics   \* app2.py performance_analytics: payload, sorted frame, metrics


(***************************************************************************)
(* Bounds of the model.                                                    *)
(***************************************************************************)
NumSessions == 2
MaxCalls == 3
MaxPayload == 2
TimeStep == 100
MaxTime == 700
MaxPositions == 2
MaxRows == 2
MaxSymbol == 2
MaxAmt == 1
MaxOrders == 2
MaxTrades == 2
MaxDay == 2
MaxRecords == 3
MaxDate == 2

(***************************************************************************)
(* Constants of the program.                                               *)
(***************************************************************************)
CACHE_TTL == 300
None == 0
TopN == 5
MsPerDay == 86400000

Sessions == 1..NumSessions
Keys == {"positions"}
Payloads == 1..MaxPayload

\* What one requests.get(..., timeout=10) followed by raise_for_status() and
\* json() can end with: a payload, a timeout or connection failure (transient),
\* or an HTTP error status (401/403: the venue refuses the credentials,
\* 5xx: the venue fails).
OkOutcomes == {[kind |-> "ok", payload |-> p] : p \in Payloads}
TransientKinds == {"timeout", "connection"}
PermanentKinds == {"http_401", "http_500"}
FailOutcomes == {[kind |-> k, payload |-> None] : k \in TransientKinds \cup PermanentKinds}
Outcomes == OkOutcomes \cup FailOutcomes

\* fetch_data with raise_for_status() forgotten: an HTTP error status is read
\* as a payload and nothing is reported.
fetch_data_noRaiseForStatus(outcome) ==
    IF outcome.kind = "ok" \/ outcome.kind \in PermanentKinds
    THEN [ret |-> IF outcome.kind = "ok" THEN outcome.payload ELSE 1, err |-> FALSE]
    ELSE [ret |-> None, err |-> TRUE]

\* The body of fetch_data: one requests.get; the payload is returned, and any
\* failure is caught, reported with st.error and turned into None.
fetch_data_body(outcome) ==
    IF outcome.kind = "ok"
    THEN [ret |-> outcome.payload, err |-> FALSE]
    ELSE [ret |-> None, err |-> TRUE]

NoEntry == [present |-> FALSE, value |-> None, err |-> FALSE, stamp |-> 0, call |-> 0]

\* A cache that serves payloads only: the entry of a failed fetch is never a
\* hit.
IsValidPayloadOnly(e, t) == e.present /\ ~e.err /\ t < e.stamp + CACHE_TTL

\* An entry that lives for one more TTL after its first.
IsValidTwiceTtl(e, t) == e.present /\ t < e.stamp + 2 * CACHE_TTL

\* st.cache_data(ttl=...): an entry written at stamp is served while
\* t < stamp + ttl.
IsValid(e, t) == e.present /\ t < e.stamp + CACHE_TTL

\* How old the entry a request finds is, against the TTL.
AgeClass(e, t) ==
    IF ~e.present THEN "none"
    ELSE IF t - e.stamp < CACHE_TTL THEN "fresh"
    ELSE IF t - e.stamp = CACHE_TTL THEN "edge"
    ELSE "expired"

Idle == [pc |-> "idle", key |-> "positions", awaited |-> 0, seenCall |-> 0,
         seenAge |-> "none", issued |-> 0, served |-> 0, window |-> FALSE,
         kind |-> "none", ret |-> None, err |-> FALSE]

\* Whether a read of key k at this moment falls in the refresh window of
\* upstream call c: c is still in flight, or the entry c wrote is younger than
\* the TTL.
InWindow(k, c) ==
    \/ inflight[k] = c
    \/ cache[k].present /\ cache[k].call = c /\ now - cache[k].stamp < CACHE_TTL

\* A cache hit: the stored value and the stored st.error message are replayed.
Hit(s, e) ==
    [s EXCEPT !.pc = "done", !.served = e.call,
              !.window = (s.awaited # 0 /\ InWindow(s.key, s.awaited)),
              !.ret = e.value, !.err = e.err]

\* A cache without the per-key compute lock: whoever misses, computes.
MayComputeUnlocked(k) == TRUE

\* The compute lock of the cache: one computation per key at a time.
MayCompute(k) == lock[k] = 0

\* A session calls fetch_data(k): the cache is read; on a miss the session
\* goes for the key's compute lock.
Request(t, k) ==
    /\ sess[t].pc = "idle"
    /\ LET s == [Idle EXCEPT !.key = k, !.awaited = inflight[k],
                             !.seenCall = cache[k].call,
                             !.seenAge = AgeClass(cache[k], now)]
       IN sess' = [sess EXCEPT ![t] =
                     IF IsValid(cache[k], now) THEN Hit(s, cache[k])
                     ELSE [s EXCEPT !.pc = "waiting"]]
    /\ UNCHANGED <<now, cache, lock, inflight, ncalls>>

\* The session gets the compute lock and reads the cache again: a value another
\* session has computed meanwhile is served; otherwise fetch_data's body starts
\* and its one requests.get goes out.
Acquire(t) ==
    /\ sess[t].pc = "waiting"
    /\ MayCompute(sess[t].key)
    /\ LET k == sess[t].key
       IN IF IsValid(cache[k], now)
          THEN /\ sess' = [sess EXCEPT ![t] = Hit(sess[t], cache[k])]
               /\ UNCHANGED <<lock, inflight, ncalls>>
          ELSE /\ ncalls < MaxCalls
               /\ lock' = [lock EXCEPT ![k] = t]
               /\ ncalls' = ncalls + 1
               /\ inflight' = [inflight EXCEPT ![k] = ncalls + 1]
               /\ sess' = [sess EXCEPT ![t].pc = "inflight",
                                       ![t].served = ncalls + 1,
                                       ![t].issued = sess[t].issued + 1]
    /\ UNCHANGED <<now, cache>>

\* The upstream call of session t ends with outcome o: fetch_data returns, the
\* cache stores what it returned (value and messages) under the key, the lock
\* is released.
FetchComplete(t, o) ==
    /\ sess[t].pc = "inflight"
    /\ LET k == sess[t].key
           i == sess[t].served
           r == fetch_data_body(o)
       IN /\ sess' = [sess EXCEPT ![t].pc = "done", ![t].kind = o.kind,
                        ![t].window = (sess[t].awaited # 0
                                       /\ InWindow(k, sess[t].awaited)),
                        ![t].ret = r.ret, ![t].err = r.err]
          /\ cache' = [cache EXCEPT ![k] =
                         [present |-> TRUE, value |-> r.ret, err |-> r.err,
                          stamp |-> now, call |-> i]]
          /\ lock' = [lock EXCEPT ![k] = IF lock[k] = t THEN 0 ELSE lock[k]]
          /\ inflight' = [inflight EXCEPT ![k] = IF inflight[k] = i THEN 0 ELSE inflight[k]]
    /\ UNCHANGED <<now, ncalls>>

\* The caller takes the result; the session is free for its next rerun.
Return(t) ==
    /\ sess[t].pc = "done"
    /\ sess' = [sess EXCEPT ![t] = Idle]
    /\ UNCHANGED <<now, cache, lock, inflight, ncalls>>

\* Time passes.
Tick ==
    /\ now + TimeStep <= MaxTime
    /\ now' = now + TimeStep
    /\ UNCHANGED <<cache, lock, inflight, ncalls, sess>>

(***************************************************************************)
(* app.py: one script run per pick in the sidebar.                         *)
(***************************************************************************)
menu == {"Account Summary", "Positions", "Open Orders", "Order History",
         "Trade History", "Analytics"}

\* What a call of the Binance client can end with: the venue's records, a
\* BinanceAPIException (the venue answers with an error status: bad
\* credentials, a refused request, a venue fault), a BinanceRequestException
\* (an answer that is no JSON), or an exception of the HTTP library, which the
\* client does not wrap (no connection, a timeout).
BinanceKinds == {"BinanceAPIException", "BinanceRequestException"}
OtherKinds == {"ConnectionError"}
ClientFailKinds == BinanceKinds \cup OtherKinds

\* Symbols are numbered in lexical order; amounts and PNL are the venue's
\* decimal strings, read by float().
Symbols == 1..MaxSymbol
Amounts == (0 - MaxAmt)..MaxAmt
Pnls == {0 - 1, 5}
VenuePosition == [symbol : Symbols, positionAmt : Amounts, unrealizedProfit : Pnls]

SeqsUpTo(S, n) == UNION {[1..m -> S] : m \in 0..n}

PositionOutcomes ==
    {[kind |-> "ok", rows |-> r] : r \in SeqsUpTo(VenuePosition, MaxPositions)}
        \cup {[kind |-> k, rows |-> <<>>] : k \in ClientFailKinds}
RowOutcomes ==
    {[kind |-> "ok", rows |-> n] : n \in 0..MaxRows}
        \cup {[kind |-> k, rows |-> 0] : k \in ClientFailKinds}

\* A comprehension without its condition: every record of the venue, renamed.
NormalizePositionsKeepAll(rows) ==
    [i \in 1..Len(rows) |-> [Symbol |-> rows[i].symbol, Size |-> rows[i].positionAmt,
                             PNL |-> rows[i].unrealizedProfit]]

\* fetch_positions, the comprehension: the venue's records with a nonzero
\* positionAmt, renamed.
NormalizePositions(rows) ==
    LET kept == SelectSeq(rows, LAMBDA p : p.positionAmt # 0)
    IN [i \in 1..Len(kept) |-> [Symbol |-> kept[i].symbol, Size |-> kept[i].positionAmt,
                                PNL |-> kept[i].unrealizedProfit]]

\* A handler as wide as fetch_account_summary's, "except Exception".
CaughtAll(kind) == kind \in ClientFailKinds

\* The handlers of fetch_trade_history, fetch_positions, fetch_open_orders and
\* fetch_order_history: except (BinanceAPIException, BinanceRequestException).
Caught(kind) == kind \in BinanceKinds

\* fetch_positions: the frame, whether st.error was called, whether the
\* exception left the function.
fetch_positions(o) ==
    IF o.kind = "ok" THEN [df |-> NormalizePositions(o.rows), error |-> FALSE, raised |-> FALSE]
    ELSE IF Caught(o.kind) THEN [df |-> <<>>, error |-> TRUE, raised |-> FALSE]
    ELSE [df |-> <<>>, error |-> FALSE, raised |-> TRUE]

\* fetch_trade_history, fetch_open_orders, fetch_order_history: the number of
\* rows of the frame, whether st.error was called, whether the exception left
\* the function.
fetch_rows(o) ==
    IF o.kind = "ok" THEN [n |-> o.rows, error |-> FALSE, raised |-> FALSE]
    ELSE IF Caught(o.kind) THEN [n |-> 0, error |-> TRUE, raised |-> FALSE]
    ELSE [n |-> 0, error |-> FALSE, raised |-> TRUE]

\* Whether PNL a goes before PNL b: descending for nlargest, ascending for
\* nsmallest.
Better(desc, a, b) == IF desc THEN a > b ELSE a < b

\* The index of the row DataFrame.nlargest / nsmallest takes next: the best
\* PNL, and among equal PNL the row that comes first in the frame
\* (keep='first').
BestIndex(df, desc) ==
    CHOOSE i \in 1..Len(df) :
        \A j \in 1..Len(df) :
            \/ Better(desc, df[i].PNL, df[j].PNL)
            \/ df[i].PNL = df[j].PNL /\ i <= j

RemoveAt(df, i) == [j \in 1..(Len(df) - 1) |-> IF j < i THEN df[j] ELSE df[j + 1]]

RECURSIVE TakeBest(_, _, _)
TakeBest(n, df, desc) ==
    IF n = 0 \/ df = <<>> THEN <<>>
    ELSE LET i == BestIndex(df, desc)
         IN <<df[i]>> \o TakeBest(n - 1, RemoveAt(df, i), desc)

nlargest(n, df) == TakeBest(n, df, TRUE)
nsmallest(n, df) == TakeBest(n, df, FALSE)

\* get_top_positions: everything inside try / except Exception.
get_top_positions(o) ==
    LET p == fetch_positions(o)
    IN IF p.raised THEN [df |-> <<>>, profit |-> <<>>, loss |-> <<>>,
                         errors |-> {"error: top positions"}]
       ELSE IF p.df = <<>> THEN [df |-> <<>>, profit |-> <<>>, loss |-> <<>>,
                                 errors |-> IF p.error THEN {"error: positions"} ELSE {}]
       ELSE [df |-> p.df, profit |-> nlargest(TopN, p.df), loss |-> nsmallest(TopN, p.df),
             errors |-> {}]

NoTop == [profit |-> <<>>, loss |-> <<>>]

\* The sidebar choice changes (or the page is reloaded): the script runs again
\* from the top.  A run that stopped before the menu has shown no radio: the
\* next run comes from a reload, with the choice as it was.
Rerun(c) ==
    /\ rpc \in {"done", "aborted", "stopped"}
    /\ rpc = "stopped" => c = choice
    /\ choice' = c
    /\ sidebar' = "none"
    /\ rpc' = "client"
    /\ out' = {}
    /\ failed' = {}
    /\ venue' = <<>>
    /\ pos' = <<>>
    /\ top' = NoTop

\* What the constructor of the client can end with: it asks the venue for a
\* ping, and any exception of that request leaves the constructor.
ClientOutcomes == {"ok"} \cup ClientFailKinds

\* The client is constructed at the top of every run, inside try / except
\* Exception: on success the sidebar says so and the script goes on to the
\* menu; on any exception the sidebar shows the error and st.stop() ends the
\* run: no menu, no section, no footer.
ClientInit ==
    /\ rpc = "client"
    /\ \E c \in ClientOutcomes :
          IF c = "ok"
          THEN sidebar' = "success" /\ rpc' = "section"
          ELSE sidebar' = "error" /\ rpc' = "stopped"
    /\ UNCHANGED <<choice, out, failed, venue, pos, top>>

\* fetch_account_summary: whether the except Exception branch is taken
\* (st.error, zeros returned).  balance is the outcome of
\* client.futures_account_balance(), margin that of client.futures_account();
\* account_info[0] of an empty balance list raises IndexError, which the
\* handler catches like the exceptions of the client.
fetch_account_summary(balance, margin) ==
    IF balance.kind # "ok" THEN CaughtAll(balance.kind)
    ELSE IF margin # "ok" THEN CaughtAll(margin)
    ELSE balance.rows = 0

\* choice == "Account Summary": fetch_account_summary catches every exception
\* and returns zeros; the four metrics are rendered either way.
AccountSummary ==
    /\ rpc = "section" /\ choice = "Account Summary"
    /\ \E balance \in RowOutcomes, margin \in ClientOutcomes :
       LET error == fetch_account_summary(balance, margin)
       IN /\ out' = out \cup {"metrics"}
                        \cup (IF error THEN {"error: account summary"} ELSE {})
          /\ failed' = IF error THEN failed \cup {"account summary"} ELSE failed
    /\ rpc' = "footer"
    /\ UNCHANGED <<choice, sidebar, venue, pos, top>>

\* choice == "Positions".
Positions ==
    /\ rpc = "section" /\ choice = "Positions"
    /\ \E o \in PositionOutcomes :
       LET p == fetch_positions(o)
       IN /\ failed' = IF o.kind = "ok" THEN failed ELSE failed \cup {"positions"}
          /\ venue' = o.rows
          /\ pos' = p.df
          /\ IF p.raised
             THEN rpc' = "aborted" /\ out' = out \cup {"exception"}
             ELSE /\ rpc' = "footer"
                  /\ out' = out \cup (IF p.error THEN {"error: positions"} ELSE {})
                                \cup (IF p.df # <<>> THEN {"positions table"}
                                      ELSE {"warning: no positions"})
    /\ UNCHANGED <<choice, sidebar, top>>

\* choice == "Open Orders" and choice == "Order History".
Orders ==
    /\ rpc = "section" /\ choice \in {"Open Orders", "Order History"}
    /\ \E o \in RowOutcomes :
       LET r == fetch_rows(o)
           what == IF choice = "Open Orders" THEN "open orders" ELSE "order history"
       IN /\ failed' = IF o.kind = "ok" THEN failed ELSE failed \cup {what}
          /\ IF r.raised
             THEN rpc' = "aborted" /\ out' = out \cup {"exception"}
             ELSE /\ rpc' = "footer"
                  /\ out' = out \cup (IF r.error THEN {"error: orders"} ELSE {})
                                \cup (IF r.n > 0 THEN {"orders table"}
                                      ELSE {"warning: no orders"})
    /\ UNCHANGED <<choice, sidebar, venue, pos, top>>

\* choice == "Trade History", up to the trade table.
TradeHistory ==
    /\ rpc = "section" /\ choice = "Trade History"
    /\ \E o \in RowOutcomes :
       LET r == fetch_rows(o)
       IN /\ failed' = IF o.kind = "ok" THEN failed ELSE failed \cup {"trade history"}
          /\ IF r.raised
             THEN rpc' = "aborted" /\ out' = out \cup {"exception"}
             ELSE IF r.n > 0
             THEN rpc' = "top" /\ out' = out \cup {"trades table"}
             ELSE /\ rpc' = "footer"
                  /\ out' = out \cup (IF r.error THEN {"error: trade history"} ELSE {})
                                \cup {"warning: no trade history"}
    /\ UNCHANGED <<choice, sidebar, venue, pos, top>>

\* choice == "Trade History", the top 5 tables under the trade table.
TopPositions ==
    /\ rpc = "top"
    /\ \E o \in PositionOutcomes :
       LET g == get_top_positions(o)
       IN /\ top' = [profit |-> g.profit, loss |-> g.loss]
          /\ venue' = o.rows
          /\ pos' = g.df
          /\ failed' = IF o.kind = "ok" THEN failed ELSE failed \cup {"positions"}
          /\ out' = out \cup g.errors
                        \cup (IF g.profit # <<>> THEN {"top profit table"}
                              ELSE {"warning: no profit-making positions"})
                        \cup (IF g.loss # <<>> THEN {"top loss table"}
                              ELSE {"warning: no loss-making positions"})
    /\ rpc' = "footer"
    /\ UNCHANGED <<choice, sidebar>>

\* choice == "Analytics": sample data, no fetch.
Analytics ==
    /\ rpc = "section" /\ choice = "Analytics"
    /\ out' = out \cup {"daily pnl chart", "cumulative pnl chart"}
    /\ rpc' = "footer"
    /\ UNCHANGED <<choice, sidebar, failed, venue, pos, top>>

\* The footer ends every run that got this far.
Footer ==
    /\ rpc = "footer"
    /\ out' = out \cup {"footer"}
    /\ rpc' = "done"
    /\ UNCHANGED <<choice, sidebar, failed, venue, pos, top>>

InitRun ==
    /\ choice = "Account Summary"
    /\ sidebar = "none"
    /\ rpc = "done"
    /\ out = {}
    /\ failed = {}
    /\ venue = <<>>
    /\ pos = <<>>
    /\ top = NoTop

(***************************************************************************)
(* Timestamps.  pd.to_datetime turns a millisecond count (unit='ms') or a   *)
(* date into a Timestamp: a calendar day and the time within the day.       *)
(* Millisecond counts are taken from the midnight that starts day 0.        *)
(***************************************************************************)
to_datetime_ms(ms) == [day |-> ms \div MsPerDay, ms |-> ms % MsPerDay]
to_datetime_date(d) == [day |-> d, ms |-> 0]

\* Timestamp <= Timestamp.
TsLeq(a, b) == a.day < b.day \/ (a.day = b.day /\ a.ms <= b.ms)

(***************************************************************************)
(* app2.py enhanced_open_orders: the symbol and order type filters.        *)
(***************************************************************************)
All == "All"
OrderSymbols == {"BTCUSDT", "ETHUSDT"}
OrderTypes == {"LIMIT", "MARKET"}
Order == [Symbol : OrderSymbols, Type : OrderTypes]

Unique(df, col) == {df[i][col] : i \in 1..Len(df)}

\* filtered_df[filtered_df['Type'].isin(selected_type)]
TypeFilter(df, selected_type) == SelectSeq(df, LAMBDA r : r.Type \in selected_type)

\* if selected_symbol != 'All': keep the rows of that symbol
SymbolFilter(df, col, selected_symbol) ==
    IF selected_symbol # All THEN SelectSeq(df, LAMBDA r : r[col] = selected_symbol)
    ELSE df

\* "Apply filters" of enhanced_open_orders.
FilterOrders(df, selected_symbol, selected_type) ==
    TypeFilter(SymbolFilter(df, "Symbol", selected_symbol), selected_type)

NoOrders == [df |-> <<>>, symbol |-> All, types |-> {}, shown |-> <<>>]
NoTrades == [df |-> <<>>, symbol |-> All, range |-> <<>>, shown |-> <<>>]

\* The Order Management page is rendered with a nonempty frame: the selectbox
\* offers 'All' and the frame's symbols, the multiselect the frame's types.
OpenOrdersPage ==
    /\ orders = NoOrders /\ trades = NoTrades
    /\ \E df \in SeqsUpTo(Order, MaxOrders) \ {<<>>} :
         \E selected_symbol \in {All} \cup Unique(df, "Symbol"),
            selected_type \in SUBSET Unique(df, "Type") :
            orders' = [df |-> df, symbol |-> selected_symbol, types |-> selected_type,
                       shown |-> FilterOrders(df, selected_symbol, selected_type)]
    /\ UNCHANGED trades

(***************************************************************************)
(* app3.py render_trade_history: the symbol and date range filters.        *)
(***************************************************************************)
Days == 0..MaxDay
TimesOfDay == {0, MsPerDay \div 2}
TradeStamps == {d * MsPerDay + t : d \in Days, t \in TimesOfDay}
Trade == [symbol : OrderSymbols, timestamp : TradeStamps]

\* What st.date_input("...", []) returns: nothing picked, a start picked, or a
\* range start <= end.
DateRanges ==
    {<<>>} \cup {<<d>> : d \in Days}
           \cup {r \in Days \X Days : r[1] <= r[2]}

\* if len(date_range) == 2: keep the rows with
\* to_datetime(date_range[0]) <= Time <= to_datetime(date_range[1])
DateFilter(df, date_range) ==
    IF Len(date_range) = 2
    THEN SelectSeq(df, LAMBDA r : /\ TsLeq(to_datetime_date(date_range[1]), r.Time)
                                  /\ TsLeq(r.Time, to_datetime_date(date_range[2])))
    ELSE df

\* df['Time'] = pd.to_datetime(df['timestamp'], unit='ms')
WithTime(df) ==
    [i \in 1..Len(df) |-> [symbol |-> df[i].symbol, timestamp |-> df[i].timestamp,
                           Time |-> to_datetime_ms(df[i].timestamp)]]

\* The filters of render_trade_history.
FilterTrades(df, selected_symbol, date_range) ==
    DateFilter(SymbolFilter(WithTime(df), "symbol", selected_symbol), date_range)

\* The Trade History page is rendered with a nonempty frame.
TradeHistoryPage ==
    /\ orders = NoOrders /\ trades = NoTrades
    /\ \E df \in SeqsUpTo(Trade, MaxTrades) \ {<<>>} :
         \E selected_symbol \in {All} \cup Unique(df, "symbol"),
            date_range \in DateRanges :
            trades' = [df |-> WithTime(df), symbol |-> selected_symbol,
                       range |-> date_range,
                       shown |-> FilterTrades(df, selected_symbol, date_range)]
    /\ UNCHANGED orders

(***************************************************************************)
(* app2.py performance_analytics.                                          *)
(***************************************************************************)
Dates == 1..MaxDate
PnlValues == {0 - 3, 0, 10}
PnlRecord == [Date : Dates, PNL : PnlValues]

Perms(n) == {f \in [1..n -> 1..n] : \A i, j \in 1..n : i # j => f[i] # f[j]}

\* The frame left in the order the payload came in.
sort_values_unsorted(df) == {df}

\* pnl_df.sort_values('Date'): the rows in ascending Date; rows of one Date in
\* whatever order the sort leaves them (the default sort is not stable).
sort_values(df) ==
    {[i \in 1..Len(df) |-> df[f[i]]] : f \in
        {g \in Perms(Len(df)) :
            \A i, j \in 1..Len(df) : i < j => TsLeq(df[g[i]].Date, df[g[j]].Date)}}

RECURSIVE cumsum(_, _)
\* Series.cumsum(): the running sums of col, row after row.
cumsum(df, i) == IF i = 0 THEN 0 ELSE cumsum(df, i - 1) + df[i].PNL

RECURSIVE SumWhere(_, _, _)
\* pnl_df[pnl_df['PNL'] > 0]['PNL'].sum() (sign 1), ... < 0 ... (sign -1)
SumWhere(df, i, sign) ==
    IF i = 0 THEN 0
    ELSE SumWhere(df, i - 1, sign)
           + (IF sign * df[i].PNL > 0 THEN df[i].PNL ELSE 0)

\* The win rate counting a PNL of zero as a win.
WinRateZeroWins(df) ==
    IF Len(df) > 0
    THEN [num |-> Len(SelectSeq(df, LAMBDA r : r.PNL >= 0)), den |-> Len(df)]
    ELSE [num |-> 0, den |-> 1]

\* len(pnl_df[pnl_df['PNL'] > 0]) / len(pnl_df) if len(pnl_df) > 0 else 0,
\* as the fraction num / den (the else branch, 0, is 0 / 1).
WinRate(df) ==
    IF Len(df) > 0
    THEN [num |-> Len(SelectSeq(df, LAMBDA r : r.PNL > 0)), den |-> Len(df)]
    ELSE [num |-> 0, den |-> 1]

NoAnalytics == [data |-> <<>>, rendered |-> FALSE, df |-> <<>>,
                profit |-> 0, loss |-> 0, winRate |-> [num |-> 0, den |-> 1]]

\* pnl_df['Date'] = pd.to_datetime(pnl_df['Date'])
WithDate(data) ==
    [i \in 1..Len(data) |-> [Date |-> to_datetime_date(data[i].Date), PNL |-> data[i].PNL]]

\* The Performance Analytics page for the payload data: nothing is rendered
\* for an empty payload; otherwise the frame is sorted by Date, the cumulative
\* column is added and the three metrics are computed.
PerformanceAnalytics ==
    /\ analytics = NoAnalytics
    /\ \E data \in SeqsUpTo(PnlRecord, MaxRecords) :
       IF data = <<>>
       THEN analytics' = [NoAnalytics EXCEPT !.data = data]
       ELSE \E sorted \in sort_values(WithDate(data)) :
            analytics' =
                [data |-> data, rendered |-> TRUE,
                 df |-> [i \in 1..Len(sorted) |->
                           [Date |-> sorted[i].Date, PNL |-> sorted[i].PNL,
                            Cumulative |-> cumsum(sorted, i)]],
                 profit |-> SumWhere(sorted, Len(sorted), 1),
                 loss |-> SumWhere(sorted, Len(sorted), 0 - 1),
                 winRate |-> WinRate(sorted)]

\* A widget changes: the script runs again from the top, with nothing
\* rendered yet.
FilterRerun ==
    /\ orders # NoOrders \/ trades # NoTrades
    /\ orders' = NoOrders
    /\ trades' = NoTrades

MetricsRerun ==
    /\ analytics # NoAnalytics
    /\ analytics' = NoAnalytics

InitFilter ==
    /\ orders = NoOrders
    /\ trades = NoTrades

InitMetrics == analytics = NoAnalytics

InitCache ==
    /\ now = 0
    /\ cache = [k \in Keys |-> NoEntry]
    /\ lock = [k \in Keys |-> 0]
    /\ inflight = [k \in Keys |-> 0]
    /\ ncalls = 0
    /\ sess = [t \in Sessions |-> Idle]

cacheVars == <<now, cache, lock, inflight, ncalls, sess>>
runVars == <<choice, sidebar, rpc, out, failed, venue, pos, top>>
filterVars == <<orders, trades>>
metricVars == <<analytics>>
vars == <<cacheVars, runVars, filterVars, metricVars>>

Init == InitCache /\ InitRun /\ InitFilter /\ InitMetrics

\* The memoized fetch_data under concurrent sessions.
Next ==
    \/ \E t \in Sessions, k \in Keys : Request(t, k) /\ UNCHANGED <<runVars, filterVars, metricVars>>
    \/ \E t \in Sessions : Acquire(t) /\ UNCHANGED <<runVars, filterVars, metricVars>>
    \/ \E t \in Sessions, o \in Outcomes :
          FetchComplete(t, o) /\ UNCHANGED <<runVars, filterVars, metricVars>>
    \/ \E t \in Sessions : Return(t) /\ UNCHANGED <<runVars, filterVars, metricVars>>
    \/ Tick /\ UNCHANGED <<runVars, filterVars, metricVars>>

Spec == Init /\ [][Next]_vars

\* The script runs of app.py.
NextRun ==
    \/ \E c \in menu : Rerun(c) /\ UNCHANGED <<cacheVars, filterVars, metricVars>>
    \/ ClientInit /\ UNCHANGED <<cacheVars, filterVars, metricVars>>
    \/ AccountSummary /\ UNCHANGED <<cacheVars, filterVars, metricVars>>
    \/ Positions /\ UNCHANGED <<cacheVars, filterVars, metricVars>>
    \/ Orders /\ UNCHANGED <<cacheVars, filterVars, metricVars>>
    \/ TradeHistory /\ UNCHANGED <<cacheVars, filterVars, metricVars>>
    \/ TopPositions /\ UNCHANGED <<cacheVars, filterVars, metricVars>>
    \/ Analytics /\ UNCHANGED <<cacheVars, filterVars, metricVars>>
    \/ Footer /\ UNCHANGED <<cacheVars, filterVars, metricVars>>

SpecRun == Init /\ [][NextRun]_vars

\* The filter pages, rendered again and again with other frames and other
\* widget values.
NextFilter ==
    \/ OpenOrdersPage /\ UNCHANGED <<cacheVars, runVars, metricVars>>
    \/ TradeHistoryPage /\ UNCHANGED <<cacheVars, runVars, metricVars>>
    \/ FilterRerun /\ UNCHANGED <<cacheVars, runVars, metricVars>>

SpecFilter == Init /\ [][NextFilter]_vars

\* The analytics page, rendered again and again with other payloads.
NextMetrics ==
    \/ PerformanceAnalytics /\ UNCHANGED <<cacheVars, runVars, filterVars>>
    \/ MetricsRerun /\ UNCHANGED <<cacheVars, runVars, filterVars>>

SpecMetrics == Init /\ [][NextMetrics]_vars

(***************************************************************************)
(* Claims about the memoized fetch_data (specification Spec).              *)
(***************************************************************************)
FailKinds == TransientKinds \cup PermanentKinds
Done(t) == sess[t].pc = "done"

\* C1: two requests for one key that overlap (the second arrives while the
\* first one's upstream call is in flight, and reads within that call's TTL
\* window) cause one upstream call: the second issues none, is served the call
\* it arrived during, and both get that call's result; no key ever has two
\* upstream calls in flight.
C1_SingleFlight ==
    /\ \A k \in Keys :
         Cardinality({t \in Sessions : sess[t].pc = "inflight" /\ sess[t].key = k}) <= 1
    /\ \A t \in Sessions :
         (Done(t) /\ sess[t].awaited # 0 /\ sess[t].window) =>
            /\ sess[t].issued = 0
            /\ sess[t].served = sess[t].awaited
            /\ \A u \in Sessions :
                 (Done(u) /\ sess[u].served = sess[t].served) =>
                    (sess[u].ret = sess[t].ret /\ sess[u].err = sess[t].err)

C1_Witness ==
    \E t, u \in Sessions :
        /\ t # u /\ Done(t) /\ Done(u)
        /\ sess[t].awaited # 0 /\ sess[t].window /\ sess[t].issued = 0
        /\ sess[u].issued = 1 /\ sess[u].served = sess[t].awaited
        /\ sess[t].served = sess[u].served
        /\ sess[u].ret \in Payloads /\ sess[t].ret = sess[u].ret
        /\ ncalls = 1

\* C2: a request that finds an entry younger than the TTL issues no upstream
\* call and returns that entry's value; a request that finds an entry older
\* than the TTL is served by a later upstream call (its own, when it is the one
\* that computes), never by the expired entry.
C2_TtlExpiry ==
    \A t \in Sessions :
        Done(t) =>
           /\ sess[t].seenAge = "fresh" =>
                 /\ sess[t].issued = 0
                 /\ sess[t].served = sess[t].seenCall
           /\ sess[t].seenAge = "expired" =>
                 /\ sess[t].served > sess[t].seenCall
                 /\ sess[t].issued <= 1
           /\ cache[sess[t].key].call = sess[t].served =>
                 /\ sess[t].ret = cache[sess[t].key].value
                 /\ sess[t].err = cache[sess[t].key].err

C2_Witness ==
    \E t, u \in Sessions :
        /\ t # u /\ Done(t) /\ Done(u)
        /\ sess[t].seenAge = "expired" /\ sess[t].issued = 1
        /\ sess[t].served > sess[t].seenCall /\ sess[t].seenCall # 0
        /\ sess[t].ret \in Payloads
        /\ sess[u].seenAge = "fresh" /\ sess[u].issued = 0
        /\ sess[u].served = sess[u].seenCall /\ sess[u].ret \in Payloads

\* The caller of fetch_data gets something else than a plain None, the one
\* return value of fetch_data that is no payload.
CallerGetsError(s) == s.ret # None

\* C3: when the upstream call for a key fails, the entry cached for the key is
\* left as it was, and the error is returned to the caller.
C3_FailurePreservesAndPropagates ==
    [][\A t \in Sessions :
         (sess[t].pc = "inflight" /\ sess'[t].pc = "done" /\ sess'[t].kind \in FailKinds) =>
            /\ cache'[sess[t].key] = cache[sess[t].key]
            /\ CallerGetsError(sess'[t])]_vars

\* C4: a fetch whose upstream call ends with a permanent error (HTTP 401, HTTP
\* 5xx) has made exactly one upstream call, and the failure is reported within
\* that call of fetch_data.
C4_PermanentNotRetried ==
    \A t \in Sessions :
        (Done(t) /\ sess[t].kind \in PermanentKinds) =>
            /\ sess[t].issued = 1
            /\ sess[t].err
            /\ sess[t].ret = None

C4_Witness ==
    \E t \in Sessions :
        /\ Done(t) /\ sess[t].kind = "http_401"
        /\ sess[t].issued = 1 /\ sess[t].err /\ ncalls = 1

\* C5: a fetch whose upstream call fails with a transient network error or a
\* timeout is retried: by the time the failure reaches the caller the upstream
\* has been called again, more than once in all.
C5_TransientRetried ==
    \A t \in Sessions :
        (Done(t) /\ sess[t].kind \in TransientKinds) => sess[t].issued >= 2

\* Whether the entry of key k is the result of a failed fetch that is younger
\* than the TTL.
FailureCached(k) ==
    /\ cache[k].present /\ cache[k].err /\ cache[k].value = None
    /\ now - cache[k].stamp < CACHE_TTL

\* C13: a failed upstream request leaves a cache entry like a successful one.
\* In every step: (a) a fetch whose upstream call fails stores None under the
\* key, stamped with the time of the failure; (b) a request that finds the
\* entry of a failed fetch before the TTL has elapsed returns None at once,
\* with the recorded error message, and no upstream call goes out; (c) no
\* upstream call goes out for a key while the entry of a failed fetch is
\* younger than the TTL.
C13_FailureCachedForTtl ==
    [][/\ \A t \in Sessions :
            (sess[t].pc = "inflight" /\ sess'[t].pc = "done" /\ sess'[t].kind \in FailKinds) =>
               /\ cache'[sess[t].key].present
               /\ cache'[sess[t].key].value = None
               /\ cache'[sess[t].key].stamp = now
               /\ sess'[t].ret = None
       /\ \A t \in Sessions :
            (sess[t].pc = "idle" /\ sess'[t].pc # "idle" /\ FailureCached(sess'[t].key)) =>
               /\ sess'[t].pc = "done"
               /\ sess'[t].ret = None /\ sess'[t].err
               /\ sess'[t].issued = 0
               /\ ncalls' = ncalls
       /\ \A k \in Keys :
            (inflight'[k] # 0 /\ inflight'[k] # inflight[k]) => ~FailureCached(k)]_vars

C13_Witness ==
    \E t, u \in Sessions :
        /\ t # u /\ Done(t) /\ Done(u)
        /\ sess[t].seenAge = "fresh" /\ sess[t].seenCall = 1 /\ sess[t].served = 1
        /\ sess[t].issued = 0 /\ sess[t].ret = None /\ sess[t].err
        /\ sess[u].seenAge \in {"edge", "expired"} /\ sess[u].seenCall = 1
        /\ sess[u].issued = 1 /\ sess[u].served = 2
        /\ sess[u].ret \in Payloads
        /\ cache[sess[u].key].call = 2 /\ cache[sess[u].key].stamp >= CACHE_TTL
        /\ ncalls = 2

(***************************************************************************)
(* Claims about the script run of app.py (specification SpecRun).          *)
(***************************************************************************)
\* C6: whatever way a data source's fetch fails, the run is not aborted: it
\* reaches the footer, the section reports the failure with a warning or an
\* error of its own, and on the Trade History page a failing positions fetch
\* leaves the trade table rendered.
C6_FailureIsolation ==
    /\ rpc # "aborted"
    /\ (rpc \in {"footer", "done"} /\ failed # {}) =>
          \E e \in out : e \notin {"metrics", "trades table", "footer"}
    /\ (choice = "Trade History" /\ "positions" \in failed) => "trades table" \in out

\* Whether a top table is in the order the claim of C11 asks for: PNL
\* descending (winners) or ascending (losers), equal PNL by symbol in lexical
\* order.
LexicalOrder(df, desc) ==
    \A i \in 1..(Len(df) - 1) :
        \/ Better(desc, df[i].PNL, df[i + 1].PNL)
        \/ df[i].PNL = df[i + 1].PNL /\ df[i].Symbol <= df[i + 1].Symbol

\* C11: once the Trade History page has asked for the top positions, the
\* winners (losers) table holds min(N, number of positions) of the positions,
\* ordered by PNL descending (ascending), and positions of equal PNL stand in
\* the lexical order of their symbols, whatever their order in the venue's
\* answer.
C11_TopNLexicalTieBreak ==
    (choice = "Trade History" /\ rpc \in {"footer", "done"} /\ "trades table" \in out) =>
        LET n == IF Len(pos) < TopN THEN Len(pos) ELSE TopN
        IN /\ Len(top.profit) = n /\ Len(top.loss) = n
           /\ \A i \in 1..n : /\ \E j \in 1..Len(pos) : top.profit[i] = pos[j]
                              /\ \E j \in 1..Len(pos) : top.loss[i] = pos[j]
           /\ LexicalOrder(top.profit, TRUE)
           /\ LexicalOrder(top.loss, FALSE)

\* C12: the frame the positions fetch hands to the run holds no record of
\* size zero and holds every record of the venue's answer whose positionAmt is
\* not zero: as many rows as the venue sent nonzero records, each of them
\* among the rows.
C12_ZeroSizeDropped ==
    LET kept == {i \in 1..Len(venue) : venue[i].positionAmt # 0}
    IN /\ \A j \in 1..Len(pos) : pos[j].Size # 0
       /\ Len(pos) = Cardinality(kept)
       /\ \A i \in kept : \E j \in 1..Len(pos) :
             /\ pos[j].Symbol = venue[i].symbol
             /\ pos[j].Size = venue[i].positionAmt
             /\ pos[j].PNL = venue[i].unrealizedProfit

C12_Witness ==
    /\ choice = "Positions" /\ rpc = "done"
    /\ "positions table" \in out
    /\ Len(venue) = 2 /\ Len(pos) = 1
    /\ venue[1].positionAmt = 0
    /\ venue[2].positionAmt < 0
    /\ pos[1].Size = venue[2].positionAmt /\ pos[1].Symbol = venue[2].symbol

(***************************************************************************)
(* Claims about the filters (specification SpecFilter).                    *)
(***************************************************************************)
\* C7: an empty filter value restricts nothing: the order table shows the rows
\* whose symbol is the selected one (every row for 'All') and whose type is
\* among the selected ones (every row when none is selected); with no date
\* range picked the trade table shows every trade of the selected symbol.
C7_EmptyFilterNoRestriction ==
    /\ orders.shown =
          SelectSeq(orders.df,
                    LAMBDA r : /\ orders.symbol = All \/ r.Symbol = orders.symbol
                               /\ orders.types = {} \/ r.Type \in orders.types)
    /\ trades.range = <<>> =>
          trades.shown =
             SelectSeq(trades.df, LAMBDA r : trades.symbol = All \/ r.symbol = trades.symbol)

\* C8: with a date range [start, end] picked, the trade table shows exactly
\* the trades (of the selected symbol) whose calendar day d has
\* start <= d <= end, whatever their time of day.
C8_DateRangeInclusiveByDay ==
    Len(trades.range) = 2 =>
       trades.shown =
          SelectSeq(trades.df,
                    LAMBDA r : /\ trades.symbol = All \/ r.symbol = trades.symbol
                               /\ trades.range[1] <= r.timestamp \div MsPerDay
                               /\ r.timestamp \div MsPerDay <= trades.range[2])

(***************************************************************************)
(* Claims about performance_analytics (specification SpecMetrics).         *)
(***************************************************************************)
RECURSIVE SeqSumPnl(_)
\* The sum of the PNL of a payload, from its last record back.
SeqSumPnl(data) ==
    IF data = <<>> THEN 0
    ELSE data[Len(data)].PNL + SeqSumPnl(SubSeq(data, 1, Len(data) - 1))

\* C9: the rendered frame holds the payload's records in ascending date order,
\* whatever order they came in; its cumulative column is the running sum of
\* PNL in that order, and its last value is the sum of all PNL of the payload.
C9_CumulativePnl ==
    analytics.rendered =>
       LET df == analytics.df
           data == analytics.data
           n == Len(df)
       IN /\ n = Len(data) /\ n > 0
          /\ \E f \in Perms(n) :
                \A i \in 1..n : /\ df[i].Date.day = data[f[i]].Date
                                /\ df[i].PNL = data[f[i]].PNL
          /\ \A i, j \in 1..n : i < j => df[i].Date.day <= df[j].Date.day
          /\ df[1].Cumulative = df[1].PNL
          /\ \A i \in 2..n : df[i].Cumulative = df[i - 1].Cumulative + df[i].PNL
          /\ df[n].Cumulative = SeqSumPnl(data)

C9_Witness ==
    /\ analytics.rendered
    /\ Len(analytics.data) >= 3
    /\ analytics.data[1].Date > analytics.data[2].Date
    /\ analytics.data[1].PNL # analytics.data[2].PNL
    /\ analytics.df[1].PNL = analytics.data[2].PNL
    /\ analytics.df[Len(analytics.df)].Cumulative = SeqSumPnl(analytics.data)
    /\ SeqSumPnl(analytics.data) = 7

\* C10: the win rate is the number of records with PNL > 0 over the number of
\* records (a PNL of 0 counts below the line only); it lies in [0, 1], nothing
\* is divided by zero, and for no records at all it is 0.
C10_WinRate ==
    LET w == analytics.winRate
        data == analytics.data
        wins == Cardinality({i \in 1..Len(data) : data[i].PNL > 0})
    IN /\ w.den > 0
       /\ 0 <= w.num /\ w.num <= w.den
       /\ analytics.rendered => w.num * Len(data) = wins * w.den
       /\ ~analytics.rendered => w.num = 0
       /\ WinRate(<<>>).num = 0 /\ WinRate(<<>>).den > 0

C10_Witness ==
    /\ analytics.rendered
    /\ \E i, j, k \in 1..Len(analytics.data) :
          /\ analytics.data[i].PNL = 0
          /\ analytics.data[j].PNL > 0
          /\ analytics.data[k].PNL < 0
    /\ analytics.winRate = [num |-> 1, den |-> 3]
====
